---- MODULE Spec2Model ----
(***************************************************************************)
(* Operator implementation selection and dispatch of the GPU plugin:       *)
(* format algebra (get_default_format, internal_to_external), the          *)
(* concatenation axis conversion, the per-operator factories (create),     *)
(* the implementation registry and the argument binding (get_arguments).   *)
(***************************************************************************)
EXTENDS Integers, Sequences, FiniteSets, TLC

VARIABLES fin, fout, registry, attached, sel, args, inst, regLog, conc, cg

vars == <<fin, fout, registry, attached, sel, args, inst, regLog, conc, cg>>

(***************************************************************************)
(* Bounds of the model.                                                    *)
(***************************************************************************)
MaxAxis == 7
MaxRank == 6
MaxCands == 2
MaxInputs == 2
MaxRegisterCalls == 3
MaxGuardThreads == 3

\* threads that run in the specification with fairness (at most MaxGuardThreads)
MaxLiveThreads == 2

\* threads that run where perform_lock may throw (at most MaxGuardThreads)
MaxFailThreads == 2

(***************************************************************************)
(* 64-bit signed integers.  An int64 is kept as three limbs                *)
(*   value = hi * 2^32 + l1 * 2^16 + l0,   0 <= l1, l0 < 2^16,             *)
(* hi being the signed upper 32 bits, so that the narrowing conversion to  *)
(* a 32-bit unsigned keeps exactly (l1, l0).                               *)
(***************************************************************************)
Limb == 65536

I64Small(v) ==
    IF v >= 0 THEN [hi |-> 0, l1 |-> 0, l0 |-> v]
              ELSE [hi |-> -1, l1 |-> Limb - 1, l0 |-> Limb + v]

I64Wrapped(v, k) == [I64Small(v) EXCEPT !.hi = @ + k]

I64IsNeg(a) == a.hi < 0

\* a + r for a negative a and a small non-negative r (no int64 overflow)
I64AddSmall(a, r) ==
    LET s0 == a.l0 + r
        s1 == a.l1 + (s0 \div Limb)
    IN  [hi |-> a.hi + (s1 \div Limb), l1 |-> s1 % Limb, l0 |-> s0 % Limb]

\* static_cast<unsigned>(a): the low 32 bits
ToUnsigned(a) == [l1 |-> a.l1, l0 |-> a.l0]

\* u >= r for a 32-bit unsigned u and a small size_t r
U32Geq(u, r) == u.l1 > 0 \/ u.l0 >= r

\* the mathematical value lies in [-rank, rank)
AxisInRange(a, rank) ==
    \/ a.hi = 0 /\ a.l1 = 0 /\ a.l0 < rank
    \/ a.hi = -1 /\ a.l1 = Limb - 1 /\ a.l0 >= Limb - rank

\* the mathematical value of an axis in [-Limb, Limb)
AxisValue(a) == IF a.hi = 0 THEN a.l0 ELSE a.l0 - Limb

(***************************************************************************)
(* concatenation: convert_axis                                             *)
(***************************************************************************)
NoVal == "none"

Max(a, b) == IF a >= b THEN a ELSE b

ConcatAxisName(i) ==
    CASE i = 0 -> "BATCH"
      [] i = 1 -> "FEATURE"
      [] i = 2 -> "X"
      [] i = 3 -> "Y"
      [] i = 4 -> "Z"
      [] i = 5 -> "W"
      [] OTHER -> NoVal

convert_axis_no_reverse(axis, rank) ==
    LET cldnn_axis == ToUnsigned(IF ~I64IsNeg(axis) THEN axis ELSE I64AddSmall(axis, rank))
    IN  IF U32Geq(cldnn_axis, rank)
        THEN [err |-> "UnsupportedAxis", val |-> NoVal]
        ELSE IF cldnn_axis.l0 > 5
             THEN [err |-> "UnsupportedAxis", val |-> NoVal]
             ELSE [err |-> "none", val |-> ConcatAxisName(cldnn_axis.l0)]

convert_axis(axis, rank) ==
    LET cldnn_axis == ToUnsigned(IF ~I64IsNeg(axis) THEN axis ELSE I64AddSmall(axis, rank))
    IN  IF U32Geq(cldnn_axis, rank)
        THEN [err |-> "UnsupportedAxis", val |-> NoVal]
        ELSE LET n == cldnn_axis.l0
                 spatial_axis == n - 2
                 spatial_size == Max(rank, 4) - 2
                 m == IF n >= 2 THEN spatial_size - spatial_axis - 1 + 2 ELSE n
             IN  IF m > 5
                 THEN [err |-> "UnsupportedAxis", val |-> NoVal]
                 ELSE [err |-> "none", val |-> ConcatAxisName(m)]

(***************************************************************************)
(* format: get_default_format, traits, internal_to_external                *)
(***************************************************************************)
get_default_format_ungrouped(rank, is_weights, is_grouped) ==
    IF is_weights
    THEN IF rank = 4 THEN "oiyx" ELSE IF rank = 5 THEN "oizyx" ELSE "bfyx"
    ELSE IF rank = 5 THEN "bfzyx" ELSE IF rank = 6 THEN "bfwzyx" ELSE "bfyx"

get_default_format_data_only(rank, is_weights, is_grouped) ==
    IF rank = 5 THEN "bfzyx" ELSE IF rank = 6 THEN "bfwzyx" ELSE "bfyx"

get_default_format(rank, is_weights, is_grouped) ==
    IF is_weights
    THEN IF is_grouped
         THEN IF rank = 5 THEN "goiyx" ELSE IF rank = 6 THEN "goizyx" ELSE "bfyx"
         ELSE IF rank = 4 THEN "oiyx" ELSE IF rank = 5 THEN "oizyx" ELSE "bfyx"
    ELSE IF rank = 5 THEN "bfzyx" ELSE IF rank = 6 THEN "bfwzyx" ELSE "bfyx"

\* static table of format traits: order and internal_order as character lists
traits(fmt) ==
    CASE fmt = "bfyx"   -> [order |-> <<"b","f","y","x">>,         internal_order |-> <<"b","f","x","y">>]
      [] fmt = "bfzyx"  -> [order |-> <<"b","f","z","y","x">>,     internal_order |-> <<"b","f","x","y","z">>]
      [] fmt = "bfwzyx" -> [order |-> <<"b","f","w","z","y","x">>, internal_order |-> <<"b","f","x","y","z","w">>]
      [] fmt = "yxfb"   -> [order |-> <<"y","x","f","b">>,         internal_order |-> <<"b","f","x","y">>]
      [] fmt = "byxf"   -> [order |-> <<"b","y","x","f">>,         internal_order |-> <<"b","f","x","y">>]
      [] fmt = "fyxb"   -> [order |-> <<"f","y","x","b">>,         internal_order |-> <<"b","f","x","y">>]
      [] fmt = "oiyx"   -> [order |-> <<"o","i","y","x">>,         internal_order |-> <<"o","i","x","y">>]
      [] fmt = "oizyx"  -> [order |-> <<"o","i","z","y","x">>,     internal_order |-> <<"o","i","x","y","z">>]
      [] fmt = "goiyx"  -> [order |-> <<"g","o","i","y","x">>,     internal_order |-> <<"o","i","x","y","g">>]
      [] fmt = "goizyx" -> [order |-> <<"g","o","i","z","y","x">>, internal_order |-> <<"o","i","x","y","z","g">>]
      [] fmt = "corrupted_bfyx" -> [order |-> <<"b","f","y","x">>,     internal_order |-> <<"b","f","?","y">>]
      [] fmt = "corrupted_bx"   -> [order |-> <<"b","x">>,             internal_order |-> <<"b","?","x","?">>]
      [] fmt = "corrupted_byxy" -> [order |-> <<"b","y","x","y">>,     internal_order |-> <<"b","f","x","y">>]

\* entries of a corrupted table: a physical-order character that is absent
\* from the canonical order, a canonical order that repeats a character
CorruptedFormats == {"corrupted_bfyx", "corrupted_bx", "corrupted_byxy"}

Formats == {"bfyx", "bfzyx", "bfwzyx", "yxfb", "byxf", "fyxb", "oiyx", "oizyx", "goiyx", "goizyx"}

order(fmt) == traits(fmt).order

internal_order(fmt) == traits(fmt).internal_order

dimension(fmt) == Len(order(fmt))

\* std::string::npos
Npos == -1

\* s.find_first_of(c): 0-based position of the first occurrence, or npos
find_first_of(s, c) ==
    IF \E i \in 1..Len(s) : s[i] = c
    THEN (CHOOSE i \in 1..Len(s) : s[i] = c /\ \A j \in 1..(i - 1) : s[j] # c) - 1
    ELSE Npos

internal_to_external_unchecked(fmt, idx) ==
    [err |-> "none", val |-> find_first_of(order(fmt), internal_order(fmt)[idx + 1])]

internal_to_external_one_based(fmt, idx) ==
    LET index == find_first_of(order(fmt), internal_order(fmt)[idx + 1])
    IN  IF index = Npos THEN [err |-> "invalid_argument", val |-> Npos]
                        ELSE [err |-> "none", val |-> index + 1]

internal_to_external(fmt, idx) ==
    LET index == find_first_of(order(fmt), internal_order(fmt)[idx + 1])
    IN  IF index = Npos THEN [err |-> "invalid_argument", val |-> Npos]
                        ELSE [err |-> "none", val |-> index]

\* format::is_grouped: group_num(fmt) != 0, the format has a group dimension
is_grouped(fmt) == \E i \in 1..Len(order(fmt)) : order(fmt)[i] = "g"

\* is_weights_format: internal_order holds one of the characters o, i
is_weights_format(fmt) ==
    \E c \in {"o", "i"} : find_first_of(internal_order(fmt), c) # Npos

(***************************************************************************)
(* convolution: the weights layout of get_convolution_primitive_descriptor *)
(* A layout is a format and the two leading spatial extents of the tensor. *)
(***************************************************************************)
convolution_weights_layout_pattern_only(input_rank, weights_layout, grouped_weights_shape) ==
    LET grouped_weights == is_grouped(weights_layout.format) \/ grouped_weights_shape
        rank == dimension(weights_layout.format)
    IN  IF grouped_weights /\ input_rank = rank
           /\ weights_layout.spatial[1] = 1 /\ weights_layout.spatial[2] # 1
        THEN [format |-> get_default_format(rank + 1, TRUE, TRUE),
              spatial |-> <<weights_layout.spatial[2], weights_layout.spatial[1]>>]
        ELSE weights_layout

convolution_weights_layout(input_rank, weights_layout, grouped_weights_shape) ==
    LET grouped_weights == is_grouped(weights_layout.format) \/ grouped_weights_shape
        rank == dimension(weights_layout.format)
    IN  IF grouped_weights /\ input_rank = rank
        THEN LET tensor == IF weights_layout.spatial[1] = 1 /\ weights_layout.spatial[2] # 1
                           THEN <<weights_layout.spatial[2], weights_layout.spatial[1]>>
                           ELSE weights_layout.spatial
             IN  [format |-> get_default_format(rank + 1, TRUE, TRUE), spatial |-> tensor]
        ELSE weights_layout

(***************************************************************************)
(* Implementation registry: per operator a map from dispatch key           *)
(* <<backend, data type, format>> to the name of the factory function.     *)
(***************************************************************************)
Operators == {"quantize", "activation", "concatenation", "space_to_batch",
              "convert_color", "extract_image_patches", "non_max_suppression"}

EmptyRegistry == [o \in Operators |-> [k \in {} |-> "none"]]

implementation_map_add_first_wins(reg, keys, factory) ==
    [k \in (DOMAIN reg) \cup keys |-> IF k \in DOMAIN reg THEN reg[k] ELSE factory]

\* implementation_map<T>::add(map): every listed key is bound to its factory
implementation_map_add(reg, keys, factory) ==
    [k \in (DOMAIN reg) \cup keys |-> IF k \in keys THEN factory ELSE reg[k]]

\* implementation_map<T>::add(impl_type, factory, types, formats)
CrossKeys(backend, types, formats) == {<<backend, t, f>> : t \in types, f \in formats}

Attach(op, keys, factory) ==
    /\ op \notin attached
    /\ attached' = attached \cup {op}
    /\ registry' = [registry EXCEPT ![op] = implementation_map_add(@, keys, factory)]
    /\ UNCHANGED <<fin, fout, sel, args, inst, regLog, conc, cg>>

quantize_keys ==
    CrossKeys("ocl", {"u8", "i8", "f16", "f32", "i32"},
              {"bfwzyx", "bfyx", "bfzyx", "byxf", "yxfb", "b_fs_yx_fsv4", "b_fs_yx_fsv16",
               "b_fs_yx_fsv32", "b_fs_zyx_fsv16", "b_fs_zyx_fsv32", "fs_b_yx_fsv32",
               "bs_fs_yx_bsv16_fsv16", "bs_fs_yx_bsv16_fsv32", "bs_fs_yx_bsv32_fsv16",
               "bs_fs_yx_bsv32_fsv32", "bs_fs_zyx_bsv16_fsv16", "bs_fs_zyx_bsv16_fsv32",
               "bs_fs_zyx_bsv32_fsv16", "bs_fs_zyx_bsv32_fsv32"})

attach_quantize_impl == Attach("quantize", quantize_keys, "quantize_impl::create")

activation_keys ==
    CrossKeys("ocl", {"u8", "i8", "f16", "f32", "i32"},
              {"bfwzyx", "bfyx", "bfzyx", "byxf", "yxfb", "b_fs_yx_fsv16", "b_fs_zyx_fsv16",
               "fs_b_yx_fsv32", "bs_fs_yx_bsv16_fsv16", "bs_fs_yx_bsv32_fsv16",
               "bs_fs_yx_bsv32_fsv32", "bs_fs_zyx_bsv16_fsv16"})

attach_activation_impl == Attach("activation", activation_keys, "activation_impl::create")

concatenation_keys ==
    CrossKeys("ocl", {"u8", "i8", "f16", "f32", "i32", "i64"},
              {"bfwzyx", "bfyx", "bfzyx", "byxf", "fyxb", "yxfb", "b_fs_yx_fsv4",
               "b_fs_yx_fsv16", "b_fs_yx_fsv32", "b_fs_zyx_fsv16", "fs_b_yx_fsv32",
               "bs_fs_yx_bsv16_fsv16", "bs_fs_yx_bsv32_fsv16", "bs_fs_yx_bsv32_fsv32",
               "bs_fs_zyx_bsv16_fsv16"})

attach_concatenation_impl ==
    Attach("concatenation", concatenation_keys, "concatenation_impl::create")

space_to_batch_keys ==
    CrossKeys("ocl", {"u8", "i8", "f16", "f32"}, {"bfwzyx", "bfyx", "bfzyx", "b_fs_zyx_fsv16"})

attach_space_to_batch_impl ==
    Attach("space_to_batch", space_to_batch_keys, "space_to_batch_impl::create")

convert_color_keys == CrossKeys("ocl", {"u8", "f16", "f32"}, {"byxf", "nv12"})

convert_color_keys_byxf == CrossKeys("ocl", {"u8", "f16", "f32"}, {"byxf"})

convert_color_keys_ragged == convert_color_keys \ {<<"ocl", "u8", "nv12">>}

\* one (type, format) pair of the lists is left out
attach_convert_color_impl_ragged ==
    Attach("convert_color", convert_color_keys_ragged, "convert_color_impl::create")

\* registers the byxf keys at static initialization and the others on demand
attach_convert_color_impl_on_demand ==
    \/ Attach("convert_color", convert_color_keys_byxf, "convert_color_impl::create")
    \/ /\ "convert_color" \in attached
       /\ ~(convert_color_keys \subseteq DOMAIN registry["convert_color"])
       /\ registry' = [registry EXCEPT !["convert_color"] =
                           implementation_map_add(@, convert_color_keys, "convert_color_impl::create")]
       /\ UNCHANGED <<fin, fout, attached, sel, args, inst, regLog, conc, cg>>

attach_convert_color_impl ==
    Attach("convert_color", convert_color_keys, "convert_color_impl::create")

extract_image_patches_keys ==
    CrossKeys("ocl", {"u8", "i8", "f16", "f32", "i32", "i64"}, {"bfyx"})

attach_extract_image_patches_impl ==
    Attach("extract_image_patches", extract_image_patches_keys,
           "extract_image_patches_impl::create")

non_max_suppression_keys_any_type ==
    CrossKeys("ocl", {"i32", "f16", "f32", "f64", "i64"}, {"bfyx"})

attach_non_max_suppression_gpu_any_type ==
    Attach("non_max_suppression", non_max_suppression_keys_any_type, "create_nms")

non_max_suppression_keys ==
    {<<"ocl", "i32", "bfyx">>, <<"ocl", "f16", "bfyx">>, <<"ocl", "f32", "bfyx">>}

attach_non_max_suppression_gpu ==
    Attach("non_max_suppression", non_max_suppression_keys, "create_nms")

\* the registries once every attach object has been constructed
AttachedRegistry ==
    [op \in Operators |->
        CASE op = "quantize" ->
                 implementation_map_add(<<>>, quantize_keys, "quantize_impl::create")
          [] op = "activation" ->
                 implementation_map_add(<<>>, activation_keys, "activation_impl::create")
          [] op = "concatenation" ->
                 implementation_map_add(<<>>, concatenation_keys, "concatenation_impl::create")
          [] op = "space_to_batch" ->
                 implementation_map_add(<<>>, space_to_batch_keys, "space_to_batch_impl::create")
          [] op = "convert_color" ->
                 implementation_map_add(<<>>, convert_color_keys, "convert_color_impl::create")
          [] op = "extract_image_patches" ->
                 implementation_map_add(<<>>, extract_image_patches_keys,
                                        "extract_image_patches_impl::create")
          [] op = "non_max_suppression" ->
                 implementation_map_add(<<>>, non_max_suppression_keys, "create_nms")]

(***************************************************************************)
(* Kernel selector results and compiled implementations.                   *)
(***************************************************************************)
NoKd == [id |-> "none", kernels |-> 0]

\* kernel_data{} passed for an optimized-out concatenation
EmptyKd == [id |-> "empty", kernels |-> 0]

NoImpl == [exists |-> FALSE, kd |-> NoKd, flag |-> FALSE]

NoParams == [built |-> FALSE]

NoSel == [op |-> "none"]

NoArgs == [inputs |-> <<>>, outputs |-> <<>>, slope |-> NoVal]

\* typed_primitive_impl_ocl(arg, kd): keeps the kernel data it is given
Impl(kd, flag) == [exists |-> TRUE, kd |-> kd, flag |-> flag]

\* result of a factory: kernel selector invocations, the list it returned,
\* the kernel data handed to the constructor, the error, the implementation
\* and the parameter record
Failed(err, ks_calls, cands, ctor_kd, params) ==
    [ks_calls |-> ks_calls, cands |-> cands, ctor_kd |-> ctor_kd, err |-> err,
     impl |-> NoImpl, params |-> params]

Built(impl, ks_calls, cands, params) ==
    [ks_calls |-> ks_calls, cands |-> cands, ctor_kd |-> impl.kd, err |-> "none",
     impl |-> impl, params |-> params]

AppendIf(s, cond, x) == IF cond THEN Append(s, x) ELSE s

BestKernelUnchecked(cands, flag, params) ==
    IF cands = <<>>
    THEN Built(Impl(EmptyKd, flag), 1, cands, params)
    ELSE Built(Impl(cands[1], flag), 1, cands, params)

BestKernelLast(cands, flag, params) ==
    IF cands = <<>>
    THEN Failed("NoViableKernel", 1, cands, NoKd, params)
    ELSE Built(Impl(cands[Len(cands)], flag), 1, cands, params)

\* an empty answer is caught and the kernel selector asked a second time
BestKernelRetry(cands, flag, params) ==
    IF cands = <<>>
    THEN Failed("NoViableKernel", 2, cands, NoKd, params)
    ELSE Built(Impl(cands[1], flag), 1, cands, params)

\* GetBestKernels, CLDNN_ERROR_BOOL(best_kernels.empty()), new impl(arg, best_kernels[0])
BestKernelOrFail(cands, flag, params) ==
    IF cands = <<>>
    THEN Failed("NoViableKernel", 1, cands, NoKd, params)
    ELSE Built(Impl(cands[1], flag), 1, cands, params)

(***************************************************************************)
(* Factories (create) of the operators.                                    *)
(***************************************************************************)
quantize_create(node, cands) ==
    BestKernelOrFail(cands, FALSE, [built |-> TRUE, scale_shift_opt |-> node.scale_shift_opt])

space_to_batch_create(node, cands) ==
    BestKernelOrFail(cands, FALSE, [built |-> TRUE])

convert_color_create(node, cands) ==
    BestKernelOrFail(cands, FALSE, [built |-> TRUE])

extract_image_patches_create(node, cands) ==
    BestKernelOrFail(cands, FALSE, [built |-> TRUE])

\* the slope check made after the kernel selector has answered, and strict
activation_create_late_check(node, cands) ==
    IF cands = <<>>
    THEN Failed("NoViableKernel", 1, cands, NoKd, NoParams)
    ELSE IF node.is_parameterized /\ node.slope_count <= node.out_feature * node.params_num
    THEN Failed("SlopeTooSmall", 1, cands, NoKd, NoParams)
    ELSE BestKernelOrFail(cands, node.is_parameterized,
                          [built |-> TRUE,
                           inputActivationParams |-> AppendIf(<<>>, node.is_parameterized, "slope")])

\* if (arg.is_parameterized()) CLDNN_ERROR_LESS_THAN(slope_layout.count(),
\* output_layout.feature() * params_num), then GetBestKernels
activation_create(node, cands) ==
    IF node.is_parameterized /\ node.slope_count < node.out_feature * node.params_num
    THEN Failed("SlopeTooSmall", 0, <<>>, NoKd, NoParams)
    ELSE BestKernelOrFail(cands, node.is_parameterized,
                          [built |-> TRUE,
                           inputActivationParams |-> AppendIf(<<>>, node.is_parameterized, "slope")])

concatenation_impl_ctor_no_node_params(node, kd, ks_calls, cands, params) ==
    IF ~node.can_be_optimized /\ node.inputs_count # kd.kernels
    THEN Failed("InputCountMismatch", ks_calls, cands, kd, params)
    ELSE Built(Impl(kd, FALSE), ks_calls, cands, params)

\* concatenation_impl(arg, kd): CLDNN_ERROR_NOT_EQUAL(inputs_count, kd.kernels.size())
\* unless optimized, then set_node_params
concatenation_impl_ctor(node, kd, ks_calls, cands, params) ==
    IF ~node.can_be_optimized /\ node.inputs_count # kd.kernels
    THEN Failed("InputCountMismatch", ks_calls, cands, kd, params)
    ELSE Built(Impl(kd, node.can_be_optimized), ks_calls, cands, params)

concatenation_create_select_first(node, cands) ==
    IF node.can_be_optimized
    THEN concatenation_impl_ctor(node, EmptyKd, 0, <<>>, NoParams)
    ELSE LET axis == convert_axis(node.axis, node.rank)
             params == [built |-> TRUE, axis |-> axis.val, inputs |-> node.inputs_count]
         IN  IF cands = <<>>
             THEN Failed("NoViableKernel", 1, cands, NoKd, NoParams)
             ELSE IF axis.err # "none"
             THEN Failed("UnsupportedAxis", 1, cands, NoKd, NoParams)
             ELSE concatenation_impl_ctor(node, cands[1], 1, cands, params)

concatenation_create(node, cands) ==
    IF node.can_be_optimized
    THEN concatenation_impl_ctor(node, EmptyKd, 0, <<>>, NoParams)
    ELSE LET axis == convert_axis(node.axis, node.rank)
             params == [built |-> TRUE, axis |-> axis.val, inputs |-> node.inputs_count]
         IN  IF axis.err # "none"
             THEN Failed("UnsupportedAxis", 0, <<>>, NoKd, NoParams)
             ELSE IF cands = <<>>
             THEN Failed("NoViableKernel", 1, cands, NoKd, params)
             ELSE concatenation_impl_ctor(node, cands[1], 1, cands, params)

\* the six optional items of non_max_suppression, in argument order
NmsItems == <<"num_select_per_class", "iou_threshold", "score_threshold",
              "soft_nms_sigma", "second_output", "third_output">>

\* parameter record of non_max_suppression_gpu::create: the third output is
\* appended, and its flag set, under has_second_output()
non_max_suppression_params(node) ==
    LET i1 == AppendIf(<<"input_scores">>, node.num_select_per_class, "num_select_per_class")
        i2 == AppendIf(i1, node.iou_threshold, "iou_threshold")
        i3 == AppendIf(i2, node.score_threshold, "score_threshold")
        i4 == AppendIf(i3, node.soft_nms_sigma, "soft_nms_sigma")
        i5 == AppendIf(i4, node.second_output, "second_output")
        i6 == AppendIf(i5, node.second_output, "third_output")
    IN  [built |-> TRUE, inputs |-> i6,
         num_select_per_class |-> node.num_select_per_class,
         iou_threshold |-> node.iou_threshold,
         score_threshold |-> node.score_threshold,
         soft_nms_sigma |-> node.soft_nms_sigma,
         second_output |-> node.second_output,
         third_output |-> node.second_output]

non_max_suppression_create(node, cands) ==
    BestKernelOrFail(cands, FALSE, non_max_suppression_params(node))

\* create_nms, the registered factory, forwards to create_nms_gpu
create_nms(node, cands) == non_max_suppression_create(node, cands)

(***************************************************************************)
(* Select: the dispatch of one graph node.                                 *)
(***************************************************************************)
CallFactory(factory, node, cands) ==
    CASE factory = "quantize_impl::create" -> quantize_create(node, cands)
      [] factory = "activation_impl::create" -> activation_create(node, cands)
      [] factory = "concatenation_impl::create" -> concatenation_create(node, cands)
      [] factory = "space_to_batch_impl::create" -> space_to_batch_create(node, cands)
      [] factory = "convert_color_impl::create" -> convert_color_create(node, cands)
      [] factory = "extract_image_patches_impl::create" -> extract_image_patches_create(node, cands)
      [] factory = "create_nms" -> create_nms(node, cands)

\* exact lookup of the dispatch key in the operator's registry
implementation_map_get(reg, key) == IF key \in DOMAIN reg THEN reg[key] ELSE "none"

SelectOutcome(reg, op, key, node, cands) ==
    [op |-> op, key |-> key, node |-> node] @@
    (LET factory == implementation_map_get(reg[op], key)
     IN  IF factory = "none"
         THEN Failed("NoImplementationFound", 0, <<>>, NoKd, NoParams)
         ELSE CallFactory(factory, node, cands))

(***************************************************************************)
(* Inputs of Select: node descriptions and kernel selector answers.        *)
(***************************************************************************)
NodeBackends == {"ocl", "onednn"}

NodeTypes == {"f32", "f64", "i64"}

NodeFormats == {"bfyx", "byxf", "nv12"}

NodeKeys == {<<b, t, f>> : b \in NodeBackends, t \in NodeTypes, f \in NodeFormats}

CandIds == {"kA", "kB"}

SeqsUpTo(S, n) == UNION {[1..m -> S] : m \in 0..n}

\* ordered candidate lists; kernels is the number of kernels of the candidate
Candidates(kernelCounts) == SeqsUpTo([id : CandIds, kernels : kernelCounts], MaxCands)

ConcatAxes == {I64Small(-1), I64Small(1), I64Small(3), I64Small(4), I64Wrapped(1, 1)}

ConcatRanks == {2, 4, 5}

PlainNodes == {[kind |-> "plain"]}

QuantizeNodes == [scale_shift_opt : BOOLEAN]

ActivationNodes ==
    {[is_parameterized |-> FALSE, slope_count |-> 0, out_feature |-> 0, params_num |-> 0]}
    \cup [is_parameterized : {TRUE}, slope_count : 1..3, out_feature : 1..2, params_num : 1..2]

ConcatenationNodes ==
    [can_be_optimized : BOOLEAN, axis : ConcatAxes, rank : ConcatRanks, inputs_count : 1..MaxInputs]

NmsNodes ==
    [num_select_per_class : BOOLEAN, iou_threshold : BOOLEAN, score_threshold : BOOLEAN,
     soft_nms_sigma : BOOLEAN, second_output : BOOLEAN, third_output : BOOLEAN]

Select(op, nodes, kernelCounts) ==
    /\ attached = Operators
    /\ sel.op = "none"
    /\ \E key \in NodeKeys : \E node \in nodes : \E cands \in Candidates(kernelCounts) :
           sel' = SelectOutcome(registry, op, key, node, cands)
    /\ args' = NoArgs
    /\ UNCHANGED <<fin, fout, registry, attached, inst, regLog, conc, cg>>

SelectQuantize == Select("quantize", QuantizeNodes, {1})

SelectActivation == Select("activation", ActivationNodes, {1})

SelectConcatenation == Select("concatenation", ConcatenationNodes, 1..MaxInputs)

\* concatenation nodes along the feature axis of a 4D output
FeatureConcatenationNodes ==
    [can_be_optimized : BOOLEAN, axis : {I64Small(1)}, rank : {4}, inputs_count : 1..MaxInputs]

SelectFeatureConcatenation == Select("concatenation", FeatureConcatenationNodes, 1..MaxInputs)

SelectSpaceToBatch == Select("space_to_batch", PlainNodes, {1})

SelectConvertColor == Select("convert_color", PlainNodes, {1})

SelectExtractImagePatches == Select("extract_image_patches", PlainNodes, {1})

SelectNonMaxSuppression == Select("non_max_suppression", NmsNodes, {1})

(***************************************************************************)
(* Bind: get_arguments of the compiled implementation.                     *)
(***************************************************************************)
InputNames == <<"input0", "input1", "input2", "input3", "input4", "input5", "input6",
                "input7", "input8">>

\* instance.input_memory_ptr(0) .. input_memory_ptr(n - 1)
InputMemories(n) == [i \in 1..n |-> InputNames[i]]

\* typed_primitive_impl_ocl::get_arguments: the inputs in order, one output
parent_get_arguments(n) ==
    [inputs |-> InputMemories(n), outputs |-> <<"output">>, slope |-> NoVal]

non_max_suppression_get_arguments(instance, n) ==
    LET i1 == AppendIf(InputMemories(n), instance.num_select_per_class, "num_select_per_class")
        i2 == AppendIf(i1, instance.iou_threshold, "iou_threshold")
        i3 == AppendIf(i2, instance.score_threshold, "score_threshold")
        i4 == AppendIf(i3, instance.soft_nms_sigma, "soft_nms_sigma")
        i5 == AppendIf(i4, instance.second_output, "second_output")
        i6 == AppendIf(i5, instance.third_output, "third_output")
    IN  [inputs |-> i6, outputs |-> <<"output">>, slope |-> NoVal]

activation_get_arguments_always_slope(impl, n) ==
    [parent_get_arguments(n) EXCEPT !.slope = "slope"]

\* args = parent::get_arguments; if (_is_parameterized) args.slope = slope_memory()
activation_get_arguments(impl, n) ==
    [parent_get_arguments(n) EXCEPT !.slope = IF impl.flag THEN "slope" ELSE NoVal]

DepNames == <<"dep0", "dep1", "dep2", "dep3", "dep4", "dep5", "dep6", "dep7", "dep8", "dep9">>

\* instance.dep_memory_ptr(i), i counted from 0
dep_memory_ptr(i) == DepNames[i + 1]

\* sizes of instance.node.get_dependencies()
DependencyCounts == {5, 8, 9, 10}

quantize_get_arguments_whenever_opt(scale_shift_opt, n, dependencies) ==
    [inputs |-> InputMemories(n) \o
                (IF scale_shift_opt
                 THEN <<dep_memory_ptr(5), dep_memory_ptr(6), dep_memory_ptr(7), dep_memory_ptr(8)>>
                 ELSE <<>>),
     outputs |-> <<"output">>, slope |-> NoVal]

\* quantize_impl::get_arguments: the inputs in order, then the dependencies
\* 5..8 if the node has scale_shift_opt and exactly 9 dependencies; one output
quantize_get_arguments(scale_shift_opt, n, dependencies) ==
    [inputs |-> InputMemories(n) \o
                (IF scale_shift_opt /\ dependencies = 9
                 THEN <<dep_memory_ptr(5), dep_memory_ptr(6), dep_memory_ptr(7), dep_memory_ptr(8)>>
                 ELSE <<>>),
     outputs |-> <<"output">>, slope |-> NoVal]

get_arguments(s, n, dependencies) ==
    CASE s.op = "non_max_suppression" -> non_max_suppression_get_arguments(s.node, n)
      [] s.op = "activation" -> activation_get_arguments(s.impl, n)
      [] s.op = "quantize" -> quantize_get_arguments(s.node.scale_shift_opt, n, dependencies)
      [] OTHER -> parent_get_arguments(n)

\* concatenation_impl::optimized_out: parent::optimized_out(instance) || _can_be_optimized
concatenation_optimized_out(impl, parent_optimized_out) == parent_optimized_out \/ impl.flag

\* an optimized-out concatenation is never executed
optimized_out(s) == s.op = "concatenation" /\ concatenation_optimized_out(s.impl, FALSE)

Bind ==
    /\ sel.op # "none"
    /\ sel.impl.exists
    /\ ~optimized_out(sel)
    /\ args.outputs = <<>>
    /\ \E n \in 1..MaxInputs : \E d \in DependencyCounts : args' = get_arguments(sel, n, d)
    /\ UNCHANGED <<fin, fout, registry, attached, sel, inst, regLog, conc, cg>>

(***************************************************************************)
(* clone and set_node_params.  The implementation built by Select is the   *)
(* object at handle 0 (sel.impl); clones are the objects of inst.heap.     *)
(***************************************************************************)
NoHandle == -1

NoInst == [heap |-> <<>>, copy |-> NoHandle]

\* no concurrent compilation in progress, no cache guard in use
NoConc == [phase |-> "none"]

NoCg == [phase |-> "none"]

ImplAt(s, i, h) == IF h = 0 THEN s.impl ELSE i.heap[h]

\* concatenation_impl(const concatenation_impl& other), activation_impl(const
\* activation_impl& other): parent(other), the flag member copied by value
impl_copy_ctor(other) == [exists |-> TRUE, kd |-> other.kd, flag |-> other.flag]

clone_returns_this(s, i, this) == [heap |-> i.heap, handle |-> this]

\* clone(): make_unique<impl>(*this), a new object
clone(s, i, this) ==
    [heap |-> Append(i.heap, impl_copy_ctor(ImplAt(s, i, this))), handle |-> Len(i.heap) + 1]

HasNodeParams(op) == op \in {"concatenation", "activation"}

Clone ==
    /\ sel.op # "none"
    /\ sel.impl.exists
    /\ inst.copy = NoHandle
    /\ LET r == clone(sel, inst, 0)
       IN  inst' = [heap |-> r.heap, copy |-> r.handle]
    /\ UNCHANGED <<fin, fout, registry, attached, sel, args, regLog, conc, cg>>

\* get_arguments of the clone: the copy is bound in place of the original
BindClone ==
    /\ sel.op # "none"
    /\ inst.copy # NoHandle
    /\ LET copy == [sel EXCEPT !.impl = ImplAt(sel, inst, inst.copy)]
       IN  /\ ~optimized_out(copy)
           /\ args.outputs = <<>>
           /\ \E n \in 1..MaxInputs : \E d \in DependencyCounts : args' = get_arguments(copy, n, d)
    /\ UNCHANGED <<fin, fout, registry, attached, sel, inst, regLog, conc, cg>>

\* set_node_params(arg) on the implementation built by Select: the flag is
\* read again from the node, _can_be_optimized = node.can_be_optimized(),
\* _is_parameterized = node.is_parameterized()
SetNodeParamsOriginal ==
    /\ sel.op # "none"
    /\ HasNodeParams(sel.op)
    /\ sel.impl.exists
    /\ \E flag \in BOOLEAN : sel' = [sel EXCEPT !.impl.flag = flag]
    /\ UNCHANGED <<fin, fout, registry, attached, args, inst, regLog, conc, cg>>

\* set_node_params(arg) on the clone
SetNodeParamsClone ==
    /\ sel.op # "none"
    /\ HasNodeParams(sel.op)
    /\ inst.copy # NoHandle
    /\ \E flag \in BOOLEAN :
           IF inst.copy = 0
           THEN /\ sel' = [sel EXCEPT !.impl.flag = flag]
                /\ UNCHANGED inst
           ELSE /\ inst' = [inst EXCEPT !.heap[inst.copy].flag = flag]
                /\ UNCHANGED sel
    /\ UNCHANGED <<fin, fout, registry, attached, args, regLog, conc, cg>>

\* graph compilation moves on to the next node
NextNode ==
    /\ sel.op # "none"
    /\ sel' = NoSel
    /\ args' = NoArgs
    /\ inst' = NoInst
    /\ UNCHANGED <<fin, fout, registry, attached, regLog, conc, cg>>

Init ==
    /\ fin = [fn |-> "none"]
    /\ fout = [fn |-> "none"]
    /\ registry = EmptyRegistry
    /\ attached = {}
    /\ sel = NoSel
    /\ args = NoArgs
    /\ inst = NoInst
    /\ regLog = <<>>
    /\ conc = NoConc
    /\ cg = NoCg

Next ==
    \/ attach_quantize_impl
    \/ attach_activation_impl
    \/ attach_concatenation_impl
    \/ attach_space_to_batch_impl
    \/ attach_convert_color_impl
    \/ attach_extract_image_patches_impl
    \/ attach_non_max_suppression_gpu
    \/ SelectQuantize
    \/ SelectActivation
    \/ SelectConcatenation
    \/ SelectSpaceToBatch
    \/ SelectConvertColor
    \/ SelectExtractImagePatches
    \/ SelectNonMaxSuppression
    \/ Bind
    \/ NextNode

Spec == Init /\ [][Next]_vars

\* registration and Select, then clone and set_node_params on the
\* implementation of the node and on its clone
NextClone ==
    \/ attach_quantize_impl
    \/ attach_activation_impl
    \/ attach_concatenation_impl
    \/ attach_space_to_batch_impl
    \/ attach_convert_color_impl
    \/ attach_extract_image_patches_impl
    \/ attach_non_max_suppression_gpu
    \/ SelectQuantize
    \/ SelectActivation
    \/ SelectFeatureConcatenation
    \/ SelectSpaceToBatch
    \/ SelectConvertColor
    \/ SelectExtractImagePatches
    \/ SelectNonMaxSuppression
    \/ Clone
    \/ SetNodeParamsOriginal
    \/ SetNodeParamsClone
    \/ BindClone
    \/ NextNode

SpecClone == Init /\ [][NextClone]_vars

\* static initialization alone: the attach objects constructed in any order
NextAttach ==
    \/ attach_quantize_impl
    \/ attach_activation_impl
    \/ attach_concatenation_impl
    \/ attach_space_to_batch_impl
    \/ attach_convert_color_impl
    \/ attach_extract_image_patches_impl
    \/ attach_non_max_suppression_gpu

SpecAttach == Init /\ [][NextAttach]_vars

(***************************************************************************)
(* Claims on registration, Select and Bind.                                *)
(***************************************************************************)
Selected == sel.op # "none"

Registered == sel.key \in DOMAIN registry[sel.op]

NmsKeys == {<<"ocl", "i32", "bfyx">>, <<"ocl", "f16", "bfyx">>, <<"ocl", "f32", "bfyx">>}

\* C1: Select finds the factory by the exact (backend, type, format) triple:
\* a node whose key is registered reaches the factory, a node whose key was
\* never registered fails with NoImplementationFound before anything else
\* happens; for non_max_suppression exactly the three registered keys match.
C1_ExactKeyLookup ==
    Selected =>
        /\ Registered => sel.err # "NoImplementationFound"
        /\ ~Registered =>
               /\ sel.err = "NoImplementationFound"
               /\ ~sel.impl.exists
               /\ sel.ks_calls = 0
        /\ sel.op = "non_max_suppression" =>
               (sel.err = "NoImplementationFound" <=> sel.key \notin NmsKeys)

C1_Witness ==
    /\ Selected
    /\ sel.op = "non_max_suppression"
    /\ sel.key = <<"ocl", "f64", "bfyx">>
    /\ <<"ocl", "f32", "bfyx">> \in DOMAIN registry[sel.op]
    /\ sel.err = "NoImplementationFound"

\* C2: when the kernel selector returns an empty list, create fails with
\* NoViableKernel and constructs no implementation; NoViableKernel only
\* occurs after a registry entry was found.
C2_EmptyCandidatesFail ==
    Selected =>
        /\ (sel.ks_calls > 0 /\ sel.cands = <<>>) =>
               /\ sel.err = "NoViableKernel"
               /\ ~sel.impl.exists
               /\ sel.ctor_kd = NoKd
        /\ sel.err = "NoViableKernel" => (Registered /\ sel.ks_calls = 1 /\ sel.cands = <<>>)

C2_Witness ==
    /\ Selected
    /\ sel.op = "concatenation"
    /\ ~sel.node.can_be_optimized
    /\ sel.ks_calls = 1
    /\ sel.cands = <<>>
    /\ sel.err = "NoViableKernel"

\* C3: when the kernel selector returns a non-empty list, the implementation
\* is constructed from the candidate at index 0 and from no other one.
C3_FirstCandidateTaken ==
    (Selected /\ sel.ks_calls > 0 /\ sel.cands # <<>>) =>
        /\ sel.ctor_kd = sel.cands[1]
        /\ sel.impl.exists => sel.impl.kd = sel.cands[1]
        /\ sel.op # "concatenation" => sel.impl.exists

C3_Witness ==
    /\ Selected
    /\ sel.op = "convert_color"
    /\ Len(sel.cands) = 2
    /\ sel.cands[1] # sel.cands[2]
    /\ sel.impl.exists
    /\ sel.impl.kd = sel.cands[1]

Count(s, x) == Cardinality({i \in 1..Len(s) : s[i] = x})

\* C4: in the non_max_suppression parameter record, for each of the six
\* optional items the flag is true iff the node reports that capability, and
\* exactly one tensor is appended for the item iff its flag is set.
C4_NmsFlagsLockStep ==
    (Selected /\ sel.op = "non_max_suppression" /\ sel.params.built) =>
        \A i \in 1..Len(NmsItems) :
            LET item == NmsItems[i]
            IN  /\ sel.params[item] = sel.node[item]
                /\ Count(sel.params.inputs, item) = (IF sel.params[item] THEN 1 ELSE 0)

IsOptional(x) == \E i \in 1..Len(NmsItems) : NmsItems[i] = x

\* C5: for non_max_suppression the optional buffers get_arguments appends
\* after the mandatory inputs are, in length and order, the optional tensors
\* create appended to the parameter record.
C5_NmsBindMatchesBuild ==
    (Selected /\ sel.op = "non_max_suppression" /\ args.outputs # <<>>) =>
        SelectSeq(args.inputs, IsOptional) = SelectSeq(sel.params.inputs, IsOptional)

AxisUnmappable == convert_axis(sel.node.axis, sel.node.rank).err # "none"

\* C8 as stated: every concatenation node, optimized or not, whose axis cannot
\* be mapped fails with UnsupportedAxis before the kernel selector is invoked.
C8_AnyNodeBadAxisFails ==
    (Selected /\ sel.op = "concatenation" /\ Registered /\ AxisUnmappable) =>
        (sel.err = "UnsupportedAxis" /\ sel.ks_calls = 0)

\* C8 amended: a concatenation node not marked can-be-optimized whose axis
\* cannot be mapped fails with UnsupportedAxis and the kernel selector is
\* never invoked for it; a node marked can-be-optimized gets its
\* implementation without the axis being converted or a kernel selected.
C8_UnoptimizedBadAxisFails ==
    (Selected /\ sel.op = "concatenation" /\ Registered /\ AxisUnmappable) =>
        IF sel.node.can_be_optimized
        THEN sel.err = "none" /\ sel.impl.exists /\ sel.ks_calls = 0
        ELSE sel.err = "UnsupportedAxis" /\ ~sel.impl.exists /\ sel.ks_calls = 0

C8_Witness ==
    /\ Selected
    /\ sel.op = "concatenation"
    /\ Registered
    /\ ~sel.node.can_be_optimized
    /\ sel.node.axis = I64Small(4)
    /\ sel.node.rank = 4
    /\ sel.err = "UnsupportedAxis"
    /\ sel.ks_calls = 0

CloneFlag(s, i) == ImplAt(s, i, i.copy).flag

\* C13: clone() of a compiled implementation (concatenation, activation)
\* yields a copy whose flag equals the original's flag at clone time and is
\* held by value: no later set_node_params, on the original or on the clone,
\* changes the flag of the other one.
C13_CloneHoldsFlagByValue ==
    [][HasNodeParams(sel.op) =>
          /\ (inst.copy = NoHandle /\ inst'.copy # NoHandle) =>
                 /\ CloneFlag(sel', inst') = sel.impl.flag
                 /\ sel'.impl.flag = sel.impl.flag
          /\ (inst.copy # NoHandle /\ inst'.copy # NoHandle) =>
                 \/ CloneFlag(sel', inst') = CloneFlag(sel, inst)
                 \/ sel'.impl.flag = sel.impl.flag]_vars

C13_Witness ==
    /\ sel.op = "concatenation"
    /\ inst.copy # NoHandle
    /\ sel.impl.flag # CloneFlag(sel, inst)
    /\ sel.impl.flag # sel.node.can_be_optimized

\* the step is the Select of a node of operator op
SelectStep(op) == sel.op = "none" /\ sel'.op = op

\* the step is the clone of the implementation of a node of operator op
CloneStep(op) == sel.op = op /\ inst.copy = NoHandle /\ inst'.copy # NoHandle

\* the step is get_arguments on the clone of a node of operator op
BindCloneStep(op) == sel.op = op /\ inst.copy # NoHandle /\ args.outputs = <<>> /\ args'.outputs # <<>>

\* C26: the slope of activation is in lock-step between build and bind.
\* create appends one tensor to inputActivationParams exactly when the node
\* is parameterized and builds an implementation whose _is_parameterized
\* equals node.is_parameterized(); clone preserves the flag; get_arguments
\* sets the slope buffer exactly when the flag of the implementation it runs
\* on is true.
C26_SlopeLockStep ==
    [][/\ (SelectStep("activation") /\ sel'.err = "none") =>
            /\ Len(sel'.params.inputActivationParams) = (IF sel'.node.is_parameterized THEN 1 ELSE 0)
            /\ sel'.impl.flag = sel'.node.is_parameterized
       /\ CloneStep("activation") => CloneFlag(sel', inst') = sel.impl.flag
       /\ BindCloneStep("activation") => ((args'.slope # NoVal) <=> CloneFlag(sel, inst))
      ]_<<sel, inst, args>>

\* a parameterized node was built with one slope tensor, cloned, and the
\* clone bound with the slope buffer
C26_Witness ==
    /\ sel.op = "activation"
    /\ sel.err = "none"
    /\ sel.node.is_parameterized
    /\ Len(sel.params.inputActivationParams) = 1
    /\ sel.impl.flag
    /\ inst.copy # NoHandle
    /\ CloneFlag(sel, inst)
    /\ args.slope # NoVal

\* C28: for a concatenation node marked can-be-optimized create returns an
\* implementation without invoking the kernel selector, and optimized_out is
\* true for it whatever the parent says; a clone answers optimized_out as
\* the implementation it was cloned from; for a node not marked
\* can-be-optimized the flag of the implementation is false and
\* optimized_out is the parent's answer.
C28_OptimizedConcatenation ==
    [][/\ (SelectStep("concatenation") /\ sel'.err # "NoImplementationFound") =>
            IF sel'.node.can_be_optimized
            THEN /\ sel'.err = "none"
                 /\ sel'.impl.exists
                 /\ sel'.ks_calls = 0
                 /\ \A p \in BOOLEAN : concatenation_optimized_out(sel'.impl, p)
            ELSE sel'.err = "none" =>
                     /\ ~sel'.impl.flag
                     /\ \A p \in BOOLEAN : concatenation_optimized_out(sel'.impl, p) = p
       /\ CloneStep("concatenation") =>
            \A p \in BOOLEAN :
                concatenation_optimized_out(ImplAt(sel', inst', inst'.copy), p)
                    = concatenation_optimized_out(sel.impl, p)
      ]_<<sel, inst, args>>

\* an optimized-out concatenation built without the kernel selector, and
\* its clone, both optimized out
C28_Witness ==
    /\ sel.op = "concatenation"
    /\ sel.err = "none"
    /\ sel.node.can_be_optimized
    /\ sel.ks_calls = 0
    /\ sel.impl.flag
    /\ inst.copy # NoHandle
    /\ concatenation_optimized_out(ImplAt(sel, inst, inst.copy), FALSE)

\* C27: for a parameterized activation node create fails before the kernel
\* selector is invoked whenever the element count of the slope layout is
\* less than output features times the additional parameters of the first
\* activation function; when the count is greater or equal the check does
\* not fail; a node that is not parameterized never fails the check.
C27_SlopeSizeCheck ==
    (sel.op = "activation" /\ sel.err # "NoImplementationFound") =>
        IF sel.node.is_parameterized
              /\ sel.node.slope_count < sel.node.out_feature * sel.node.params_num
        THEN sel.err = "SlopeTooSmall" /\ sel.ks_calls = 0 /\ ~sel.impl.exists
        ELSE sel.err # "SlopeTooSmall"

\* a slope of 3 elements for 2 features with 2 parameters each
C27_Witness ==
    /\ sel.op = "activation"
    /\ sel.node.is_parameterized
    /\ sel.node.slope_count = 3
    /\ sel.node.out_feature = 2
    /\ sel.node.params_num = 2
    /\ sel.err = "SlopeTooSmall"
    /\ sel.ks_calls = 0

\* C15: once the registration phase has ended (every operator attached), no
\* step of Select or Bind, successful or failed,
\* adds, removes or replaces a registry entry: the registries stay what
\* static initialization made them.
C15_RegistryImmutableAfterInit ==
    [][attached = Operators => (registry' = registry /\ attached' = attached)]_vars

C15_Witness ==
    /\ attached = Operators
    /\ registry = AttachedRegistry
    /\ sel.op = "quantize"
    /\ sel.impl.exists
    /\ args.outputs # <<>>

KeyTypes(keys) == {k[2] : k \in keys}

KeyFormats(keys) == {k[3] : k \in keys}

\* number of data types and of formats each attach call lists
ListSizes(op) ==
    CASE op = "quantize" -> <<5, 19>>
      [] op = "activation" -> <<5, 12>>
      [] op = "concatenation" -> <<6, 15>>
      [] op = "space_to_batch" -> <<4, 4>>
      [] op = "convert_color" -> <<3, 2>>
      [] op = "extract_image_patches" -> <<6, 1>>
      [] op = "non_max_suppression" -> <<3, 1>>

\* C18: each attach call registers exactly the full cross-product of its
\* data-type list and its format list (non_max_suppression: exactly its
\* three listed keys), every key with backend ocl and all keys of the call
\* with the same factory; nothing is registered for an operator before its
\* attach call and no pair outside the lists afterwards.
C18_AttachRegistersCrossProduct ==
    \A op \in Operators :
        LET keys == DOMAIN registry[op]
        IN  IF op \notin attached
            THEN keys = {}
            ELSE /\ \A k \in keys : k[1] = "ocl"
                 /\ Cardinality({registry[op][k] : k \in keys}) = 1
                 /\ Cardinality(KeyTypes(keys)) = ListSizes(op)[1]
                 /\ Cardinality(KeyFormats(keys)) = ListSizes(op)[2]
                 /\ op # "non_max_suppression" =>
                        keys = {<<"ocl", t, f>> : t \in KeyTypes(keys), f \in KeyFormats(keys)}
                 /\ op = "non_max_suppression" => keys = NmsKeys
                 /\ op = "convert_color" =>
                        /\ KeyTypes(keys) = {"u8", "f16", "f32"}
                        /\ KeyFormats(keys) = {"byxf", "nv12"}
                        /\ \A k \in keys : registry[op][k] = "convert_color_impl::create"
                 /\ op = "activation" =>
                        /\ KeyTypes(keys) = {"u8", "i8", "f16", "f32", "i32"}
                        /\ Cardinality(keys) = 60
                        /\ \A k \in keys : registry[op][k] = "activation_impl::create"

C18_Witness ==
    /\ attached = {"activation", "convert_color", "non_max_suppression"}
    /\ Cardinality(DOMAIN registry["activation"]) = 60
    /\ Cardinality(DOMAIN registry["convert_color"]) = 6
    /\ Cardinality(DOMAIN registry["non_max_suppression"]) = 3
    /\ DOMAIN registry["quantize"] = {}

TypedFailures == {"NoImplementationFound", "NoViableKernel", "UnsupportedAxis",
                  "SlopeTooSmall", "InputCountMismatch"}

\* C17: every Select ends in exactly one of two outcomes, a usable compiled
\* implementation or a typed failure; the kernel selector is invoked at most
\* once per Select (no failure is caught and retried), and after a failure
\* no implementation exists for the node and nothing is bound.
C17_OneOutcomeNoRetry ==
    Selected =>
        /\ sel.ks_calls \in {0, 1}
        /\ sel.err = "none" <=> sel.impl.exists
        /\ sel.err # "none" =>
               /\ sel.err \in TypedFailures
               /\ ~sel.impl.exists
               /\ args = NoArgs
        /\ (sel.ks_calls = 1 /\ sel.cands = <<>>) => sel.err # "none"

C17_Witness ==
    /\ Selected
    /\ sel.op = "activation"
    /\ Registered
    /\ sel.node.is_parameterized
    /\ sel.cands = <<>>
    /\ sel.ks_calls = 1
    /\ sel.err = "NoViableKernel"
    /\ ~sel.impl.exists

(***************************************************************************)
(* Select of independent nodes by concurrent compilation threads.  Each    *)
(* thread runs the steps of one Select: registry lookup, the part of       *)
(* create that fills the parameter record, GetBestKernels, and the         *)
(* construction of the implementation.  conc.slots[i] is the parameter     *)
(* record that is the local variable of thread i's create.                 *)
(***************************************************************************)
CompileThreads == {1, 2}

ConcKeys == {<<"ocl", "f32", "bfyx">>, <<"ocl", "f64", "bfyx">>}

ConcCandidates == {<<>>, <<[id |-> "kA", kernels |-> 1]>>}

ConcNodes ==
    {<<"space_to_batch", n>> : n \in PlainNodes}
    \cup {<<"extract_image_patches", n>> : n \in PlainNodes}
    \cup {<<"quantize", n>> : n \in QuantizeNodes}
    \cup {<<"concatenation", n>> :
              n \in [can_be_optimized : BOOLEAN, axis : {I64Small(1), I64Small(4)},
                     rank : {4}, inputs_count : {1}]}

IdleThread == [pc |-> "idle"]

InitConc ==
    /\ fin = [fn |-> "none"]
    /\ fout = [fn |-> "none"]
    /\ registry = AttachedRegistry
    /\ attached = Operators
    /\ sel = NoSel
    /\ args = NoArgs
    /\ inst = NoInst
    /\ regLog = <<>>
    /\ conc = [phase |-> "compile",
               thr |-> [t \in CompileThreads |-> IdleThread],
               slots |-> [t \in CompileThreads |-> NoParams]]
    /\ cg = NoCg

ConcUnchanged == UNCHANGED <<fin, fout, registry, attached, sel, args, inst, regLog, cg>>

ParamsSlotStatic(t) == 1

\* the parameter record is a local variable of the running create
ParamsSlot(t) == t

\* what the factory does with this node, and what Select returns for it
FactoryResult(j) ==
    CallFactory(implementation_map_get(registry[j.op], j.key), j.node, j.cands)

JobTag(j) == [op |-> j.op, key |-> j.key, node |-> j.node]

ConcStart(t) ==
    /\ conc.thr[t].pc = "idle"
    /\ \E on \in ConcNodes : \E key \in ConcKeys : \E cands \in ConcCandidates :
           conc' = [conc EXCEPT !.thr[t] =
                       [pc |-> "lookup", op |-> on[1], key |-> key, node |-> on[2],
                        cands |-> cands]]
    /\ ConcUnchanged

\* the registry lookup of the dispatch driver
ConcLookup(t) ==
    /\ conc.thr[t].pc = "lookup"
    /\ LET j == conc.thr[t]
       IN  IF implementation_map_get(registry[j.op], j.key) = "none"
           THEN conc' = [conc EXCEPT !.thr[t] =
                            [j EXCEPT !.pc = "done"] @@
                            [out |-> JobTag(j) @@
                                     Failed("NoImplementationFound", 0, <<>>, NoKd, NoParams)]]
           ELSE conc' = [conc EXCEPT !.thr[t].pc = "params"]
    /\ ConcUnchanged

\* create up to the call of the kernel selector: the parameter record is
\* filled, or create ends before any kernel is selected
ConcBuildParams(t) ==
    /\ conc.thr[t].pc = "params"
    /\ LET j == conc.thr[t]
           r == FactoryResult(j)
       IN  IF r.ks_calls = 0
           THEN conc' = [conc EXCEPT !.thr[t] =
                            [j EXCEPT !.pc = "done"] @@ [out |-> JobTag(j) @@ r]]
           ELSE conc' = [conc EXCEPT !.thr[t].pc = "select",
                                     !.slots[ParamsSlot(t)] = r.params]
    /\ ConcUnchanged

\* kernel_selector.GetBestKernels(params, optional_params)
ConcGetBestKernels(t) ==
    /\ conc.thr[t].pc = "select"
    /\ conc' = [conc EXCEPT !.thr[t] =
                    [@ EXCEPT !.pc = "construct"] @@ [best_kernels |-> conc.thr[t].cands]]
    /\ ConcUnchanged

\* CLDNN_ERROR_BOOL(best_kernels.empty()), new impl(arg, best_kernels[0])
ConcConstruct(t) ==
    /\ conc.thr[t].pc = "construct"
    /\ LET j == conc.thr[t]
           r == CallFactory(implementation_map_get(registry[j.op], j.key), j.node,
                            j.best_kernels)
       IN  conc' = [conc EXCEPT !.thr[t] =
                       [j EXCEPT !.pc = "done"] @@
                       [out |-> JobTag(j) @@
                                [r EXCEPT !.params = conc.slots[ParamsSlot(t)]]],
                                !.slots[ParamsSlot(t)] = NoParams]
    /\ ConcUnchanged

\* the thread moves on to its next node
ConcFinish(t) ==
    /\ conc.thr[t].pc = "done"
    /\ conc' = [conc EXCEPT !.thr[t] = IdleThread]
    /\ ConcUnchanged

NextConc ==
    \E t \in CompileThreads :
        \/ ConcStart(t)
        \/ ConcLookup(t)
        \/ ConcBuildParams(t)
        \/ ConcGetBestKernels(t)
        \/ ConcConstruct(t)
        \/ ConcFinish(t)

SpecConc == InitConc /\ [][NextConc]_vars

Compiling == conc.phase = "compile"

\* C16: when Select runs concurrently for independent nodes, every
\* interleaving gives each node the outcome of running its Select alone
\* (the same implementation and parameter record, or the same error), and a
\* step of one thread writes neither the other thread's state nor the other
\* thread's parameter record nor the registry.
C16_ConcurrentSelectIndependent ==
    [][Compiling =>
          /\ registry' = registry
          /\ \A t \in CompileThreads :
                 /\ conc'.thr[t].pc = "done" =>
                        LET j == conc'.thr[t]
                        IN  j.out = SelectOutcome(registry, j.op, j.key, j.node, j.cands)
                 /\ conc'.thr[t] = conc.thr[t] => conc'.slots[t] = conc.slots[t]
                 /\ conc'.thr[t] # conc.thr[t] =>
                        \A u \in CompileThreads \ {t} : conc'.thr[u] = conc.thr[u]]_vars

C16_Witness ==
    /\ Compiling
    /\ conc.thr[1].pc = "done"
    /\ conc.thr[1].op = "space_to_batch"
    /\ conc.thr[1].out.impl.exists
    /\ conc.thr[2].pc = "construct"
    /\ conc.thr[2].op = "extract_image_patches"
    /\ conc.slots[2].built

(***************************************************************************)
(* Register: arbitrary sequences of registrations, the same key possibly   *)
(* registered again with another factory.  regLog is the history of calls. *)
(***************************************************************************)
RegisterOperators == {"quantize", "non_max_suppression"}

RegisterFactories == {"quantize_impl::create", "create_nms"}

RegisterDtypeSets == {{"f32"}, {"f16", "f32"}, {"f64"}}

RegisterKeySets ==
    {quantize_keys} \cup {CrossKeys("ocl", types, {"bfyx"}) : types \in RegisterDtypeSets}

Register(op, keys, factory) ==
    /\ Len(regLog) < MaxRegisterCalls
    /\ registry' = [registry EXCEPT ![op] = implementation_map_add(@, keys, factory)]
    /\ regLog' = Append(regLog, [op |-> op, keys |-> keys, factory |-> factory])
    /\ UNCHANGED <<fin, fout, attached, sel, args, inst, conc, cg>>

RegisterAny ==
    \E op \in RegisterOperators : \E keys \in RegisterKeySets : \E factory \in RegisterFactories :
        Register(op, keys, factory)

InitRegister ==
    /\ fin = [fn |-> "none"]
    /\ fout = [fn |-> "none"]
    /\ registry = EmptyRegistry
    /\ attached = {}
    /\ sel = NoSel
    /\ args = NoArgs
    /\ inst = NoInst
    /\ regLog = <<>>
    /\ conc = NoConc
    /\ cg = NoCg

NextRegister == RegisterAny

SpecRegister == InitRegister /\ [][NextRegister]_vars

\* the calls that registered key k for operator op
CallsFor(op, k) == {i \in 1..Len(regLog) : regLog[i].op = op /\ k \in regLog[i].keys}

LastCallFor(op, k) == CHOOSE i \in CallsFor(op, k) : \A j \in CallsFor(op, k) : j <= i

\* C14: after any sequence of Register calls the registry holds exactly one
\* entry per distinct key ever registered, and the factory stored for a key
\* is the one passed by the most recent Register call for that key.
C14_LastRegistrationWins ==
    \A op \in Operators :
        /\ DOMAIN registry[op] =
               UNION {regLog[i].keys : i \in {j \in 1..Len(regLog) : regLog[j].op = op}}
        /\ \A k \in DOMAIN registry[op] :
               registry[op][k] = regLog[LastCallFor(op, k)].factory

C14_Witness ==
    /\ Len(regLog) = 3
    /\ regLog[1] = [op |-> "quantize", keys |-> quantize_keys, factory |-> "quantize_impl::create"]
    /\ regLog[2].op = "quantize"
    /\ regLog[2].keys = {<<"ocl", "f32", "bfyx">>}
    /\ regLog[2].factory = "create_nms"
    /\ regLog[3].op = "non_max_suppression"
    /\ registry["quantize"][<<"ocl", "f32", "bfyx">>] = "create_nms"
    /\ registry["quantize"][<<"ocl", "f16", "bfyx">>] = "quantize_impl::create"

(***************************************************************************)
(* CacheGuard: a table from hash to an item (a mutex and a reference       *)
(* counter), guarded by the table mutex.  A CacheGuardEntry keeps the      *)
(* hash, a shared pointer to the item's mutex and a reference to the       *)
(* item's counter.  Every thread uses one entry at a time.                 *)
(*   cg.tableMutex  the thread that holds m_tableMutex, or 0               *)
(*   cg.table[h]    the item of hash h, or 0 when m_table has no entry     *)
(*   cg.items[i]    ref: m_itemRefCounter, owner: the thread holding the   *)
(*                  mutex or 0, state: free, live (in m_table) or erased   *)
(*   cg.thr[t]      pc, and the hash and item of the thread's entry        *)
(***************************************************************************)
GuardThreads == 1..MaxGuardThreads

Hashes == {"h1", "h2"}

ItemIds == 1..(MaxGuardThreads + Cardinality(Hashes))

FreeItem == [ref |-> 0, owner |-> 0, state |-> "free"]

\* m_table[hash] default-constructs the item: a new mutex, counter 0
NewItem == [ref |-> 0, owner |-> 0, state |-> "live"]

NoEntry == [pc |-> "idle", hash |-> "none", item |-> 0]

InitGuard ==
    /\ fin = [fn |-> "none"]
    /\ fout = [fn |-> "none"]
    /\ registry = EmptyRegistry
    /\ attached = {}
    /\ sel = NoSel
    /\ args = NoArgs
    /\ inst = NoInst
    /\ regLog = <<>>
    /\ conc = NoConc
    /\ cg = [phase |-> "guard", tableMutex |-> 0,
             table |-> [h \in Hashes |-> 0],
             items |-> [i \in ItemIds |-> FreeItem],
             thr |-> [t \in GuardThreads |-> NoEntry],
             dangling_use |-> FALSE]

GuardUnchanged == UNCHANGED <<fin, fout, registry, attached, sel, args, inst, regLog, conc>>

\* storage of an erased item is reclaimed once no entry refers to it
Reclaim(c) ==
    [c EXCEPT !.items =
        [i \in ItemIds |->
            IF c.items[i].state = "erased" /\ \A t \in GuardThreads : c.thr[t].item # i
            THEN FreeItem ELSE c.items[i]]]

UnusedItem(c) == CHOOSE i \in ItemIds : c.items[i].state = "free" /\ \A j \in 1..(i - 1) : c.items[j].state # "free"

\* get_hash_lock, line 36: std::unique_lock<std::mutex> lock(m_tableMutex)
get_hash_lock_lock_table(t, h) ==
    /\ cg.thr[t].pc = "idle"
    /\ cg.tableMutex = 0
    /\ cg' = [cg EXCEPT !.tableMutex = t, !.thr[t] = [pc |-> "gl_table", hash |-> h, item |-> 0]]
    /\ GuardUnchanged

\* line 37: auto& data = m_table[hash]
get_hash_lock_table_item(t) ==
    /\ cg.thr[t].pc = "gl_table"
    /\ LET h == cg.thr[t].hash
       IN  IF cg.table[h] # 0
           THEN cg' = [cg EXCEPT !.thr[t].pc = "gl_ctor", !.thr[t].item = cg.table[h]]
           ELSE LET i == UnusedItem(cg)
                IN  cg' = [cg EXCEPT !.thr[t].pc = "gl_ctor", !.thr[t].item = i,
                                     !.table[h] = i, !.items[i] = NewItem]
    /\ GuardUnchanged

CacheGuardEntry_ctor_no_increment(t) ==
    /\ cg.thr[t].pc = "gl_ctor"
    /\ cg' = [cg EXCEPT !.thr[t].pc = "gl_unlock"]
    /\ GuardUnchanged

\* line 41, CacheGuardEntry constructor: m_refCount++
CacheGuardEntry_ctor(t) ==
    /\ cg.thr[t].pc = "gl_ctor"
    /\ cg' = [cg EXCEPT !.thr[t].pc = "gl_unlock", !.items[cg.thr[t].item].ref = @ + 1]
    /\ GuardUnchanged

get_hash_lock_keep_table(t) ==
    /\ cg.thr[t].pc = "gl_unlock"
    /\ cg' = [cg EXCEPT !.thr[t].pc = "gl_lock"]
    /\ GuardUnchanged

\* line 42: lock.unlock()
get_hash_lock_unlock_table(t) ==
    /\ cg.thr[t].pc = "gl_unlock"
    /\ cg' = [cg EXCEPT !.thr[t].pc = "gl_lock", !.tableMutex = 0]
    /\ GuardUnchanged

\* lines 43-44, perform_lock: m_mutex->lock() blocks until the mutex is free;
\* then get_hash_lock returns and the unique_lock leaves its scope
perform_lock(t) ==
    /\ cg.thr[t].pc = "gl_lock"
    /\ cg.items[cg.thr[t].item].owner = 0
    /\ cg' = [cg EXCEPT !.thr[t].pc = "held", !.items[cg.thr[t].item].owner = t,
                         !.tableMutex = IF @ = t THEN 0 ELSE @]
    /\ GuardUnchanged

\* line 43, perform_lock: m_mutex->lock() throws (std::system_error); the
\* mutex is not acquired and the unique_ptr res destroys the entry
perform_lock_throws(t) ==
    /\ cg.thr[t].pc = "gl_lock"
    /\ cg' = [cg EXCEPT !.thr[t].pc = "failed", !.tableMutex = IF @ = t THEN 0 ELSE @]
    /\ GuardUnchanged

\* destructor, line 24: m_refCount--; the destructor runs on an entry that
\* get_hash_lock returned or on one whose perform_lock threw
CacheGuardEntry_dtor_decrement(t) ==
    /\ cg.thr[t].pc \in {"held", "failed"}
    /\ cg' = [cg EXCEPT !.thr[t].pc = "dt_unlock", !.items[cg.thr[t].item].ref = @ - 1,
                         !.dangling_use = @ \/ cg.items[cg.thr[t].item].state # "live"]
    /\ GuardUnchanged

CacheGuardEntry_dtor_keep_mutex(t) ==
    /\ cg.thr[t].pc = "dt_unlock"
    /\ cg' = [cg EXCEPT !.thr[t].pc = "dt_check"]
    /\ GuardUnchanged

\* destructor, line 25: m_mutex->unlock().  The call is unconditional; on a
\* mutex the calling thread does not own its behaviour is undefined: the
\* mutex is released from whoever holds it, or is left as it is
CacheGuardEntry_dtor_unlock(t) ==
    /\ cg.thr[t].pc = "dt_unlock"
    /\ LET i == cg.thr[t].item
           o == cg.items[i].owner
       IN  \E released \in (IF o = t THEN {0} ELSE {0, o}) :
               cg' = [cg EXCEPT !.thr[t].pc = "dt_check", !.items[i].owner = released]
    /\ GuardUnchanged

\* check_for_remove, line 48: std::lock_guard<std::mutex> lock(m_tableMutex)
check_for_remove_lock_table(t) ==
    /\ cg.thr[t].pc = "dt_check"
    /\ cg.tableMutex = 0
    /\ cg' = [cg EXCEPT !.thr[t].pc = "cr_table", !.tableMutex = t]
    /\ GuardUnchanged

check_for_remove_always_erase(t) ==
    /\ cg.thr[t].pc = "cr_table"
    /\ LET h == cg.thr[t].hash
           i == cg.table[h]
       IN  IF i # 0
           THEN cg' = [cg EXCEPT !.thr[t].pc = "cr_unlock", !.table[h] = 0,
                                 !.items[i].state = "erased"]
           ELSE cg' = [cg EXCEPT !.thr[t].pc = "cr_unlock"]
    /\ GuardUnchanged

check_for_remove_never_erase(t) ==
    /\ cg.thr[t].pc = "cr_table"
    /\ cg' = [cg EXCEPT !.thr[t].pc = "cr_unlock"]
    /\ GuardUnchanged

\* lines 49-54: the item is erased if it is in the table and its counter is 0
check_for_remove_erase(t) ==
    /\ cg.thr[t].pc = "cr_table"
    /\ LET h == cg.thr[t].hash
           i == cg.table[h]
       IN  IF i # 0 /\ cg.items[i].ref = 0
           THEN cg' = [cg EXCEPT !.thr[t].pc = "cr_unlock", !.table[h] = 0,
                                 !.items[i].state = "erased"]
           ELSE cg' = [cg EXCEPT !.thr[t].pc = "cr_unlock"]
    /\ GuardUnchanged

\* line 55 and the end of the destructor: the table mutex is released, the
\* entry and its shared pointer to the mutex are gone
check_for_remove_unlock_table(t) ==
    /\ cg.thr[t].pc = "cr_unlock"
    /\ cg' = Reclaim([cg EXCEPT !.thr[t] = NoEntry, !.tableMutex = 0])
    /\ GuardUnchanged

NextGuard ==
    \E t \in GuardThreads :
        \/ \E h \in Hashes : get_hash_lock_lock_table(t, h)
        \/ get_hash_lock_table_item(t)
        \/ CacheGuardEntry_ctor(t)
        \/ get_hash_lock_unlock_table(t)
        \/ perform_lock(t)
        \/ CacheGuardEntry_dtor_decrement(t)
        \/ CacheGuardEntry_dtor_unlock(t)
        \/ check_for_remove_lock_table(t)
        \/ check_for_remove_erase(t)
        \/ check_for_remove_unlock_table(t)

SpecGuard == InitGuard /\ [][NextGuard]_vars

\* the steps of thread t
ThreadNext(t) ==
    \/ \E h \in Hashes : get_hash_lock_lock_table(t, h)
    \/ get_hash_lock_table_item(t)
    \/ CacheGuardEntry_ctor(t)
    \/ get_hash_lock_unlock_table(t)
    \/ perform_lock(t)
    \/ CacheGuardEntry_dtor_decrement(t)
    \/ CacheGuardEntry_dtor_unlock(t)
    \/ check_for_remove_lock_table(t)
    \/ check_for_remove_erase(t)
    \/ check_for_remove_unlock_table(t)

LiveThreads == 1..MaxLiveThreads

NextGuardLive == \E t \in LiveThreads : ThreadNext(t)

\* Fair scheduling: a thread that can run again and again eventually runs.
\* For a thread blocked in std::mutex::lock this is a fair mutex (the mutex
\* is free again and again, so the thread eventually gets it); for a thread
\* that holds an entry it is the assumption that the entry is eventually
\* destroyed.
SpecGuardLive ==
    InitGuard /\ [][NextGuardLive]_vars /\ \A t \in LiveThreads : SF_vars(ThreadNext(t))

Guarding == cg.phase = "guard"

\* the threads between the return of get_hash_lock(h) and the start of the
\* destruction of the entry it returned
Users(h) == {t \in GuardThreads : cg.thr[t].pc = "held" /\ cg.thr[t].hash = h}

\* C19: CacheGuard serializes the users of a key: for every hash h and every
\* interleaving, at most one thread is between the return of
\* get_hash_lock(h) and the start of the destruction of its entry.
C19_OneUserPerHash ==
    Guarding => \A h \in Hashes : Cardinality(Users(h)) <= 1

\* thread t holds a per-hash mutex
HoldsHashMutex(t) == \E i \in ItemIds : cg.items[i].state # "free" /\ cg.items[i].owner = t

\* thread t waits for a per-hash mutex
WaitsForHashMutex(t) == cg.thr[t].pc = "gl_lock"

\* C20: locking is per key.  A thread waiting in get_hash_lock(h2) finds the
\* mutex of its item free unless another thread holds the mutex for the same
\* hash h2, so a holder of h1 # h2 never keeps it from acquiring; and no
\* thread holds the table mutex while it waits for or holds a per-hash mutex.
C20_LockingIsPerKey ==
    Guarding =>
        \A t \in GuardThreads :
            /\ cg.tableMutex = t => (~WaitsForHashMutex(t) /\ ~HoldsHashMutex(t))
            /\ WaitsForHashMutex(t) =>
                   LET owner == cg.items[cg.thr[t].item].owner
                   IN  owner # 0 => (owner # t /\ cg.thr[owner].hash = cg.thr[t].hash)
            /\ \A u \in GuardThreads :
                   (cg.thr[t].item # 0 /\ cg.thr[t].item = cg.thr[u].item) =>
                       cg.thr[t].hash = cg.thr[u].hash

C20_Witness ==
    /\ Guarding
    /\ Users("h1") = {1}
    /\ Users("h2") = {2}
    /\ cg.thr[3].pc = "gl_lock"
    /\ cg.thr[3].hash = "h2"
    /\ cg.tableMutex = 0

FailThreads == 1..MaxFailThreads

\* the threads run get_hash_lock whose perform_lock may throw
NextGuardFail ==
    \E t \in FailThreads :
        \/ ThreadNext(t)
        \/ perform_lock_throws(t)

SpecGuardFail == InitGuard /\ [][NextGuardFail]_vars

Constructed(h) ==
    {t \in GuardThreads : cg.thr[t].hash = h /\ cg.thr[t].pc \in {"gl_unlock", "gl_lock", "held", "failed"}}

\* C21: the table entry of a hash is never erased while its counter is
\* positive: from the construction of a CacheGuardEntry for h to the start of
\* its destruction, m_table holds the item the entry was built on, that item
\* is live (its mutex and counter are in place) and its counter is positive,
\* whatever check_for_remove calls other threads make in between.
C21_NoEraseWhileReferenced ==
    Guarding =>
        \A h \in Hashes : \A t \in Constructed(h) :
            /\ cg.table[h] = cg.thr[t].item
            /\ cg.items[cg.thr[t].item].state = "live"
            /\ cg.items[cg.thr[t].item].ref > 0

\* an entry of h1 is in use while the check_for_remove of another entry of
\* h1 has just run and left the item in the table
C21_Witness ==
    /\ Guarding
    /\ Constructed("h1") = {1}
    /\ cg.thr[2].pc = "cr_unlock"
    /\ cg.thr[2].hash = "h1"
    /\ cg.thr[2].item = cg.thr[1].item
    /\ cg.table["h1"] = cg.thr[1].item

\* the threads that are inside get_hash_lock(h), use its entry or destroy it
Involved(h) == {t \in GuardThreads : cg.thr[t].hash = h}

\* C22: no table entry leaks: whenever every CacheGuardEntry created for a
\* hash h has completed its destruction and no thread is inside
\* get_hash_lock(h), m_table has no entry for h; and every live item is the
\* table's item of some hash.
C22_NoLeakedEntry ==
    Guarding =>
        /\ \A h \in Hashes : Involved(h) = {} => cg.table[h] = 0
        /\ \A i \in ItemIds :
               cg.items[i].state = "live" => \E h \in Hashes : cg.table[h] = i

\* the destructors of two entries of h1 have interleaved: one thread is back
\* from its destructor, the other has just erased the item
C22_Witness ==
    /\ Guarding
    /\ Involved("h1") = {2}
    /\ Involved("h2") = {}
    /\ cg.thr[2].pc = "cr_unlock"
    /\ cg.table["h1"] = 0
    /\ cg.items[cg.thr[2].item].state = "erased"
    /\ cg.thr[1].pc = "idle"
    /\ cg.thr[3].pc = "idle"

\* C24: when perform_lock fails inside get_hash_lock, the destruction of the
\* entry cleans the item up from the table once no other user remains, and
\* it does not release the mutex of the hash from a thread that holds it:
\* every user of a hash still owns the mutex of its item and every hash has
\* at most one user.
C24_FailedLockKeepsExclusion ==
    Guarding =>
        /\ \A h \in Hashes : Involved(h) = {} => cg.table[h] = 0
        /\ \A h \in Hashes : \A t \in Users(h) : cg.items[cg.thr[t].item].owner = t
        /\ \A h \in Hashes : Cardinality(Users(h)) <= 1

\* C25: for every hash in the table the counter of its item equals the
\* number of entries of that hash that are constructed and have not started
\* their destruction; no counter is negative; no entry decrements the
\* counter of an item that was already erased.
C25_CounterCountsEntries ==
    Guarding =>
        /\ \A h \in Hashes :
               cg.table[h] # 0 => cg.items[cg.table[h]].ref = Cardinality(Constructed(h))
        /\ \A i \in ItemIds : cg.items[i].ref >= 0
        /\ ~cg.dangling_use

\* two entries of h1 at once: one holds the mutex, the perform_lock of the
\* other has thrown and its destruction has not started
C25_Witness ==
    /\ Guarding
    /\ cg.table["h1"] # 0
    /\ cg.items[cg.table["h1"]].ref = 2
    /\ Constructed("h1") = {1, 2}
    /\ cg.thr[1].pc = "held"
    /\ cg.thr[2].pc = "failed"

(***************************************************************************)
(* Calls of the pure functions on inputs drawn from bounded sets.          *)
(***************************************************************************)
AxisWraps == {-2, -1, 0, 1, 2}

AxisValues == {I64Wrapped(v, k) : v \in (-MaxAxis)..MaxAxis, k \in AxisWraps}

Ranks == 1..MaxRank

NoCall == [fn |-> "none", err |-> "none", val |-> NoVal]

FnInput(fn, axis, rank, w, g, fmt, idx) ==
    [fn |-> fn, axis |-> axis, rank |-> rank, is_weights |-> w, is_grouped |-> g,
     fmt |-> fmt, idx |-> idx]

FnInputs ==
    {FnInput("convert_axis", a, r, FALSE, FALSE, "bfyx", 0) : a \in AxisValues, r \in Ranks}
    \cup {FnInput("get_default_format", I64Small(0), r, w, g, "bfyx", 0) :
              r \in 0..(MaxRank + 1), w \in BOOLEAN, g \in BOOLEAN}
    \cup UNION {{FnInput("internal_to_external", I64Small(0), 0, FALSE, FALSE, f, i) :
                     i \in 0..(Len(internal_order(f)) - 1)} : f \in Formats \cup CorruptedFormats}

WeightsFormats == {"oiyx", "oizyx", "goiyx", "goizyx"}

SpatialExtents == 1..3

ConvolutionInputs ==
    [fn : {"get_convolution_primitive_descriptor"}, rank : 4..MaxRank,
     weights_layout : [format : WeightsFormats, spatial : SpatialExtents \X SpatialExtents],
     grouped_weights_shape : BOOLEAN]

\* instances of quantize: inputs_memory_count() and the node's dependencies
QuantizeInstances ==
    [fn : {"quantize_get_arguments"}, scale_shift_opt : BOOLEAN,
     inputs_memory_count : 0..MaxInputs, dependencies : DependencyCounts]

InitFn ==
    /\ fin \in FnInputs \cup ConvolutionInputs \cup QuantizeInstances
    /\ fout = NoCall
    /\ registry = EmptyRegistry
    /\ attached = {}
    /\ sel = NoSel
    /\ args = NoArgs
    /\ inst = NoInst
    /\ regLog = <<>>
    /\ conc = NoConc
    /\ cg = NoCg

CallConvertAxis ==
    /\ fin.fn = "convert_axis"
    /\ fout.fn = "none"
    /\ fout' = [fn |-> "convert_axis"] @@ convert_axis(fin.axis, fin.rank)
    /\ UNCHANGED <<fin, registry, attached, sel, args, inst, regLog, conc, cg>>

CallGetDefaultFormat ==
    /\ fin.fn = "get_default_format"
    /\ fout.fn = "none"
    /\ fout' = [fn |-> "get_default_format", err |-> "none",
                val |-> get_default_format(fin.rank, fin.is_weights, fin.is_grouped)]
    /\ UNCHANGED <<fin, registry, attached, sel, args, inst, regLog, conc, cg>>

CallInternalToExternal ==
    /\ fin.fn = "internal_to_external"
    /\ fout.fn = "none"
    /\ fout' = [fn |-> "internal_to_external"] @@ internal_to_external(fin.fmt, fin.idx)
    /\ UNCHANGED <<fin, registry, attached, sel, args, inst, regLog, conc, cg>>

CallGetConvolutionPrimitiveDescriptor ==
    /\ fin.fn = "get_convolution_primitive_descriptor"
    /\ fout.fn = "none"
    /\ fout' = [fn |-> "get_convolution_primitive_descriptor", err |-> "none", val |-> NoVal,
                weights_layout |-> convolution_weights_layout(fin.rank, fin.weights_layout,
                                                              fin.grouped_weights_shape)]
    /\ UNCHANGED <<fin, registry, attached, sel, args, inst, regLog, conc, cg>>

CallQuantizeGetArguments ==
    /\ fin.fn = "quantize_get_arguments"
    /\ fout.fn = "none"
    /\ fout' = [fn |-> "quantize_get_arguments", err |-> "none", val |-> NoVal,
                args |-> quantize_get_arguments(fin.scale_shift_opt, fin.inputs_memory_count,
                                                fin.dependencies)]
    /\ UNCHANGED <<fin, registry, attached, sel, args, inst, regLog, conc, cg>>

NextFn ==
    \/ CallQuantizeGetArguments
    \/ CallConvertAxis
    \/ CallGetDefaultFormat
    \/ CallInternalToExternal
    \/ CallGetConvolutionPrimitiveDescriptor

SpecFn == InitFn /\ [][NextFn]_vars

(***************************************************************************)
(* Claims on the pure functions.                                           *)
(***************************************************************************)
AxisSlots == <<"BATCH", "FEATURE", "X", "Y", "Z", "W">>

\* C6: convert_axis(axis, rank) throws for every 64-bit axis outside
\* [-rank, rank), for every rank from 1 to 6, also when the low 32 bits of
\* the axis are a valid index.
C6_OutOfRangeAxisThrows ==
    (fout.fn = "convert_axis" /\ fin.rank \in 1..6 /\ ~AxisInRange(fin.axis, fin.rank))
        => fout.err # "none"

\* C7: for rank r in 4..6 and every axis a in [-r, r) convert_axis succeeds;
\* a negative a gives the result of a + r; normalized axis 0 is BATCH, 1 is
\* FEATURE, k >= 2 is slot (r - 1 - k) + 2 of (BATCH, FEATURE, X, Y, Z, W);
\* the mapping is injective on [0, r).
C7_AxisRemapping ==
    (fout.fn = "convert_axis" /\ fin.rank \in 4..6 /\ AxisInRange(fin.axis, fin.rank)) =>
        LET r == fin.rank
            a == AxisValue(fin.axis)
            k == IF a < 0 THEN a + r ELSE a
            slot == IF k < 2 THEN k ELSE (r - 1 - k) + 2
        IN  /\ fout.err = "none"
            /\ fout.val = AxisSlots[slot + 1]
            /\ convert_axis(I64Small(k), r).val = fout.val
            /\ \A k1 \in 0..(r - 1) : \A k2 \in 0..(r - 1) :
                   k1 # k2 => convert_axis(I64Small(k1), r).val # convert_axis(I64Small(k2), r).val

C7_Witness ==
    /\ fout.fn = "convert_axis"
    /\ fin.rank = 4
    /\ fin.axis = I64Small(-1)
    /\ fout.val = "X"

\* C9: get_default_format follows the documented table: (4, data) = bfyx,
\* (5, data) = bfzyx, (6, data) = bfwzyx, (4, weights) = oiyx, (5, weights) =
\* oizyx, (5, grouped weights) = goiyx, (6, grouped weights) = goizyx; the
\* is_grouped flag has no effect when is_weights is false.
C9_DefaultFormatTable ==
    fout.fn = "get_default_format" =>
        LET r == fin.rank
            w == fin.is_weights
            g == fin.is_grouped
        IN  /\ (r = 4 /\ ~w) => fout.val = "bfyx"
            /\ (r = 5 /\ ~w) => fout.val = "bfzyx"
            /\ (r = 6 /\ ~w) => fout.val = "bfwzyx"
            /\ (r = 4 /\ w /\ ~g) => fout.val = "oiyx"
            /\ (r = 5 /\ w /\ ~g) => fout.val = "oizyx"
            /\ (r = 5 /\ w /\ g) => fout.val = "goiyx"
            /\ (r = 6 /\ w /\ g) => fout.val = "goizyx"
            /\ ~w => fout.val = get_default_format(r, FALSE, ~g)

C9_Witness ==
    /\ fout.fn = "get_default_format"
    /\ fin.rank = 5 /\ fin.is_weights /\ fin.is_grouped
    /\ fout.val = "goiyx"

PhysicalChar == internal_order(fin.fmt)[fin.idx + 1]

OccursInOrder(c, fmt) == \E i \in 1..Len(order(fmt)) : order(fmt)[i] = c

\* C11: internal_to_external(idx) fails with an invalid-argument error iff
\* the character internal_order[idx] does not occur in order; otherwise it
\* returns the position of the first occurrence of that character in order;
\* in both cases the call changes nothing but its own result.
C11_InternalToExternalFailsIffAbsent ==
    [][(fout.fn = "none" /\ fout'.fn = "internal_to_external") =>
          /\ fout'.err = "invalid_argument" <=> ~OccursInOrder(PhysicalChar, fin.fmt)
          /\ fout'.err \in {"none", "invalid_argument"}
          /\ fout'.err = "none" =>
                 /\ fout'.val \in 0..(dimension(fin.fmt) - 1)
                 /\ order(fin.fmt)[fout'.val + 1] = PhysicalChar
                 /\ \A j \in 1..fout'.val : order(fin.fmt)[j] # PhysicalChar
          /\ UNCHANGED <<fin, registry, attached, sel, args, inst, regLog, conc, cg>>]_(fout.fn)

C11_Witness ==
    /\ fout.fn = "internal_to_external"
    /\ fin.fmt = "corrupted_bx"
    /\ fin.idx = 3
    /\ fout.err = "invalid_argument"

GroupedWeights == is_grouped(fin.weights_layout.format) \/ fin.grouped_weights_shape

EqualRanks == fin.rank = dimension(fin.weights_layout.format)

DegeneratePattern == fin.weights_layout.spatial[1] = 1 /\ fin.weights_layout.spatial[2] # 1

PromotedFormat == get_default_format(dimension(fin.weights_layout.format) + 1, TRUE, TRUE)

Swapped == <<fin.weights_layout.spatial[2], fin.weights_layout.spatial[1]>>

\* C12 as stated: the weights format is replaced by get_default_format(rank+1,
\* weights, grouped) only when the weights are grouped, their rank equals the
\* input rank and the tensor shows the 1xN pattern, and then the two spatial
\* extents are swapped too; a grouped weight without the pattern keeps its
\* layout.
C12_PromoteOnlyOnPattern ==
    fout.fn = "get_convolution_primitive_descriptor" =>
        IF GroupedWeights /\ EqualRanks /\ DegeneratePattern
        THEN fout.weights_layout = [format |-> PromotedFormat, spatial |-> Swapped]
        ELSE fout.weights_layout = fin.weights_layout

\* C12 amended: the weights format is replaced by get_default_format(rank+1,
\* weights, grouped) whenever the weights are grouped and their rank equals
\* the input rank; the two spatial extents are swapped in addition only when
\* spatial[0] = 1 and spatial[1] # 1; in every other case the layout is kept.
C12_PromoteEveryGroupedSwapOnPattern ==
    fout.fn = "get_convolution_primitive_descriptor" =>
        IF GroupedWeights /\ EqualRanks
        THEN /\ fout.weights_layout.format = PromotedFormat
             /\ fout.weights_layout.spatial =
                    (IF DegeneratePattern THEN Swapped ELSE fin.weights_layout.spatial)
        ELSE fout.weights_layout = fin.weights_layout

C12_Witness ==
    /\ fout.fn = "get_convolution_primitive_descriptor"
    /\ fin.rank = 4
    /\ fin.weights_layout = [format |-> "oiyx", spatial |-> <<3, 3>>]
    /\ fin.grouped_weights_shape
    /\ fout.weights_layout = [format |-> "goiyx", spatial |-> <<3, 3>>]

\* C29: quantize get_arguments returns the inputs_memory_count() input
\* buffers of the instance in index order, followed by the dependency
\* buffers 5, 6, 7, 8 in that order exactly when the node has scale_shift_opt
\* and 9 dependencies; the output list is the one output of the instance.
C29_QuantizeArguments ==
    fout.fn = "quantize_get_arguments" =>
        LET n == fin.inputs_memory_count
            extra == fin.scale_shift_opt /\ fin.dependencies = 9
            a == fout.args
        IN  /\ Len(a.inputs) = n + (IF extra THEN 4 ELSE 0)
            /\ \A i \in 1..n : a.inputs[i] = InputNames[i]
            /\ extra => \A k \in 1..4 : a.inputs[n + k] = dep_memory_ptr(4 + k)
            /\ a.outputs = <<"output">>

\* scale_shift_opt with 9 dependencies: two inputs, then the four buffers
C29_Witness ==
    /\ fout.fn = "quantize_get_arguments"
    /\ fin.scale_shift_opt
    /\ fin.dependencies = 9
    /\ fin.inputs_memory_count = 2
    /\ fout.args.inputs = <<"input0", "input1", "dep5", "dep6", "dep7", "dep8">>

\* the combinations of get_default_format that have a format of their own:
\* data of rank 4..6, plain weights of rank 4 or 5, grouped weights of rank
\* 5 or 6
HasDefaultFormat(rank, weights, grouped) ==
    \/ ~weights /\ rank \in 4..6
    \/ weights /\ ~grouped /\ rank \in {4, 5}
    \/ weights /\ grouped /\ rank \in {5, 6}

\* C30 as stated: for every rank in 4..6 and every (is_weights, is_grouped)
\* get_default_format returns a format whose dimension is the rank, and a
\* weights format whenever is_weights is true.
C30_DefaultFormatHasRank ==
    (fout.fn = "get_default_format" /\ fin.rank \in 4..6) =>
        /\ dimension(fout.val) = fin.rank
        /\ fin.is_weights => is_weights_format(fout.val)

\* C30 amended: for data of rank 4..6, plain weights of rank 4 or 5 and
\* grouped weights of rank 5 or 6 the returned format has the requested
\* rank, is a weights format exactly when is_weights is true and a grouped
\* one exactly when it is a grouped weights request; for grouped weights of
\* rank 4 and plain weights of rank 6 the 4D data format bfyx is returned.
C30_DefaultFormatHasRankWhereDefined ==
    (fout.fn = "get_default_format" /\ fin.rank \in 4..6) =>
        IF HasDefaultFormat(fin.rank, fin.is_weights, fin.is_grouped)
        THEN /\ dimension(fout.val) = fin.rank
             /\ is_weights_format(fout.val) <=> fin.is_weights
             /\ is_grouped(fout.val) <=> (fin.is_weights /\ fin.is_grouped)
        ELSE fout.val = "bfyx"

\* the promotion of 5D grouped weights: rank 6, weights, grouped
C30_Witness ==
    /\ fout.fn = "get_default_format"
    /\ fin.rank = 6
    /\ fin.is_weights
    /\ fin.is_grouped
    /\ fout.val = "goizyx"
    /\ dimension(fout.val) = 6

====
